---- MODULE Spec2Model ----
(***************************************************************************)
(* Model of the tech-stack-analyzer scanner: the recursive directory walk  *)
(* (Scanner.recurse / applyRules), the component detectors it calls, the   *)
(* classifier, and the Payload tree with its merge operations.             *)
(*                                                                         *)
(* Payloads live in a heap (a sequence of records); a payload's id is its  *)
(* index in the heap, which stands for the Go pointer.  A payload that was *)
(* allocated but never attached, or merged away, stays in the heap but is  *)
(* not reachable from the root through childs.                             *)
(*                                                                         *)
(* Paths are sequences of segments: <<>> is "/", <<"a","pom.xml">> is      *)
(* "/a/pom.xml".  Reasons are records [kind, arg] with arg a sequence.     *)
(***************************************************************************)
EXTENDS Integers, Sequences, FiniteSets, TLC

VARIABLES heap, stack, status, dirsVisited, filesListed, attributed,
          excludeDirs, cfgTechs, dirNames, providerLog, document, result,
          arrays, pathOf

\* The inputs of a scan: the scanner's exclusion patterns, the techs of the
\* project configuration and the names of the directories the walk meets,
\* in the order it meets them.
inputs == <<excludeDirs, cfgTechs, dirNames>>

\* The argument and the return value of a call of a parser or of the
\* aggregator on its own.
call == <<document, result>>

\* The backing arrays of the path slices and the slice header of each
\* payload's Path, for the calls on path slices on their own.
slices == <<arrays, pathOf>>

vars == <<heap, stack, status, dirsVisited, filesListed, attributed, inputs, providerLog, call, slices>>

\* ------------------------------------------------------------------------
\* Bounds of the model
\* ------------------------------------------------------------------------
MaxDirs == 3
MaxFiles == 2
MaxFilesPerDir == 2
MaxPayloads == 4
MaxLanguageCount == 2
MaxLines == 3
MaxDeclarations == 2

\* Longest path list of a payload, and the payloads that can share a
\* backing array.
MaxPathLen == 4

MaxSharing == 2

\* ------------------------------------------------------------------------
\* Generic helpers
\* ------------------------------------------------------------------------
Contains(seq, x) == \E i \in 1..Len(seq) : seq[i] = x

AppendUnique(seq, x) == IF Contains(seq, x) THEN seq ELSE Append(seq, x)

RECURSIVE UnionSeq(_, _)
UnionSeq(a, b) == IF b = <<>> THEN a ELSE UnionSeq(AppendUnique(a, Head(b)), Tail(b))

RECURSIVE RemoveAll(_, _)
RemoveAll(seq, x) ==
    IF seq = <<>> THEN <<>>
    ELSE IF Head(seq) = x THEN RemoveAll(Tail(seq), x)
    ELSE <<Head(seq)>> \o RemoveAll(Tail(seq), x)

Range(seq) == {seq[i] : i \in 1..Len(seq)}

NoDup(seq) == \A i, j \in 1..Len(seq) : i # j => seq[i] # seq[j]

MinOf(S) == CHOOSE x \in S : \A y \in S : x <= y

\* All orderings of a finite set, as sequences (Go map iteration order).
Perms(S) == {f \in [1..Cardinality(S) -> S] : \A i, j \in 1..Cardinality(S) : i # j => f[i] # f[j]}

\* ------------------------------------------------------------------------
\* Rules and the classifier
\* ------------------------------------------------------------------------
NoDeps == {}
NoFiles == <<>>
NoExts == {}

Rule(tech, name, type, isComp, isPrim, files, exts, content, deps) ==
    [tech |-> tech, name |-> name, type |-> type,
     is_component |-> isComp, is_primary_tech |-> isPrim,
     files |-> files, extensions |-> exts, content |-> content,
     dependencies |-> deps]

\* The rule corpus of the model, in load order.
Rules == <<
    Rule("postgresql", "PostgreSQL", "db", "unset", "unset", NoFiles, NoExts, FALSE,
         {<<"docker", "postgres">>, <<"nuget", "Npgsql">>, <<"maven", "org.postgresql:postgresql">>}),
    Rule("aws", "AWS", "cloud", "unset", "unset", <<"serverless.yml">>, NoExts, FALSE, NoDeps),
    Rule("cmake", "CMake", "builder", "true", "false", <<"CMakeLists.txt">>, NoExts, FALSE, NoDeps),
    Rule("cplusplus", "C++", "language", "unset", "true", NoFiles, {".cpp"}, FALSE, NoDeps),
    Rule("mfc", "MFC", "ui_framework", "true", "unset", NoFiles, {".cpp"}, TRUE, NoDeps),
    Rule("qt", "Qt", "framework", "unset", "true", NoFiles, {".cpp"}, TRUE, NoDeps),
    Rule("mytech", "MyTech", "my_new_type", "unset", "unset", <<"mytech.json">>, NoExts, FALSE, NoDeps),
    Rule("spring", "Spring", "framework", "unset", "true", NoFiles, NoExts, FALSE,
         {<<"maven", "spring-boot">>}),
    Rule("newtech", "NewTech", "saas", "unset", "unset", <<"newtech.conf">>, {".nt"}, TRUE, NoDeps),
    Rule("quarkus", "Quarkus", "framework", "unset", "unset", <<"quarkus.conf">>, NoExts, TRUE,
         {<<"maven", "io.quarkus:quarkus-core">>})
>>

RuleIdx == 1..Len(Rules)

AllTechs == {Rules[i].tech : i \in RuleIdx}

\* Types that do not create a component (the classifier's table).
notAComponent ==
    {"ci", "language", "runtime", "tool", "framework", "validation", "builder",
     "linter", "test", "orm", "package_manager", "ui", "ui_framework", "iac", "iconset"}

\* Types listed as creating a component.
GetComponentTypes ==
    {"db", "hosting", "cloud", "saas", "cms", "monitoring", "communication", "analytics",
     "etl", "app", "auth", "payment", "storage", "notification", "queue", "automation",
     "security", "maps", "crm", "network", "collaboration", "ssg", "ai"}

IsNotAComponent(techType) == techType \in notAComponent

ShouldCreateComponent(rule) ==
    IF rule.is_component # "unset" THEN rule.is_component = "true"
    ELSE ~IsNotAComponent(rule.type)

\* Primary-tech decision: the rule's override, else the component decision.
ShouldAddPrimaryTech(rule) ==
    IF rule.is_primary_tech # "unset" THEN rule.is_primary_tech = "true"
    ELSE ShouldCreateComponent(rule)

\* First rule carrying the tech, 0 when there is none.
RuleOfTech(tech) ==
    LET S == {i \in RuleIdx : Rules[i].tech = tech}
    IN IF S = {} THEN 0 ELSE MinOf(S)

\* ------------------------------------------------------------------------
\* Payload
\* ------------------------------------------------------------------------
Languages == {"C++", "XML", "YAML", "Text", "JSON"}

NoReason == [kind |-> "", arg |-> <<>>]
Reason(kind, arg) == [kind |-> kind, arg |-> arg]

Dependency(type, name, example) == [type |-> type, name |-> name, example |-> example]

Edge(target) == [target |-> target, read |-> TRUE, write |-> TRUE]

\* origin is a history field: who allocated the payload.  For an implicit
\* component it records the context, the rule and the addEdges argument of
\* the findImplicitComponent call that made it.
NoOrigin == [kind |-> "detector", ctx |-> 0, rule |-> 0, addEdges |-> FALSE]

NewPayloadRec(name, paths) ==
    [name |-> name, path |-> paths, tech |-> <<>>, techs |-> <<>>,
     languages |-> [l \in Languages |-> 0], dependencies |-> <<>>,
     childs |-> <<>>, edges |-> <<>>, licenses |-> <<>>, reason |-> <<>>,
     origin |-> NoOrigin]

\* Allocates a payload; its id is Len(h) + 1.
NewPayload(h, name, paths) == Append(h, NewPayloadRec(name, paths))

NewPayloadWithPath(h, name, path) == NewPayload(h, name, <<path>>)

AddPath(h, p, path) == [h EXCEPT ![p].path = AppendUnique(@, path)]

AddPrimaryTech(h, p, tech) == [h EXCEPT ![p].tech = AppendUnique(@, tech)]

AddTech(h, p, tech, reason) ==
    [h EXCEPT ![p].techs = AppendUnique(@, tech),
              ![p].reason = IF reason = NoReason THEN @ ELSE AppendUnique(@, reason)]

AddLicense(h, p, license) == [h EXCEPT ![p].licenses = AppendUnique(@, license)]

AddEdges(h, p, target) == [h EXCEPT ![p].edges = Append(@, Edge(target))]

AddDependency(h, p, dep) == [h EXCEPT ![p].dependencies = Append(@, dep)]

AddLanguage(h, p, language) == [h EXCEPT ![p].languages[language] = @ + 1]

\* The existing child AddChild merges the service into, 0 when it appends.
ExistingChild(h, p, service) ==
    LET S == {i \in 1..Len(h[p].childs) :
                 /\ ~(Len(h[h[p].childs[i]].tech) = 0 /\ Len(h[service].tech) = 0)
                 /\ h[h[p].childs[i]].name = h[service].name}
    IN IF S = {} THEN 0 ELSE h[p].childs[MinOf(S)]

\* An AddChild that never merges.
AddChild_AlwaysAppend(h, p, service) == [h EXCEPT ![p].childs = Append(@, service)]

AddChild(h, p, service) ==
    LET exist == ExistingChild(h, p, service)
    IN IF exist # 0
       THEN [h EXCEPT ![exist].path = UnionSeq(@, h[service].path),
                      ![exist].tech = UnionSeq(@, h[service].tech),
                      ![exist].dependencies = @ \o h[service].dependencies]
       ELSE [h EXCEPT ![p].childs = Append(@, service)]

RECURSIVE AddChildren(_, _, _)
AddChildren(h, p, services) ==
    IF services = <<>> THEN h
    ELSE AddChildren(AddChild(h, p, Head(services)), p, Tail(services))

containsDependency(deps, dep) ==
    \E i \in 1..Len(deps) :
        deps[i].type = dep.type /\ deps[i].name = dep.name /\ deps[i].example = dep.example

RECURSIVE mergeDependencies(_, _)
mergeDependencies(deps, other) ==
    IF other = <<>> THEN deps
    ELSE mergeDependencies(IF containsDependency(deps, Head(other)) THEN deps
                           ELSE Append(deps, Head(other)), Tail(other))

Combine(h, p, other) ==
    [h EXCEPT ![p].path = UnionSeq(@, h[other].path),
              ![p].languages = [l \in Languages |-> @[l] + h[other].languages[l]],
              ![p].techs = UnionSeq(UnionSeq(@, h[other].techs), h[other].tech),
              ![p].tech = UnionSeq(@, h[other].tech),
              ![p].dependencies = mergeDependencies(@, h[other].dependencies),
              ![p].licenses = UnionSeq(@, h[other].licenses)]

\* ------------------------------------------------------------------------
\* The files a directory listing can hold
\* ------------------------------------------------------------------------
NoManifest == [kind |-> "none", name |-> "", items |-> <<>>]

Manifest(kind, name, items) == [kind |-> kind, name |-> name, items |-> items]

\* A compose service (image already split by parseImage) or a package.
Item(name, image, version) == [name |-> name, image |-> image, version |-> version]

File(name, ext, lang, manifest, content) ==
    [name |-> name, ext |-> ext, lang |-> lang, manifest |-> manifest, content |-> content]

\* name, extension, language the language adapter attributes ("" for none),
\* parsed manifest, techs whose content pattern the body satisfies.
\* Listed in the provider's listing order (by name).
FileUniverse == <<
    File("CMakeLists.txt", ".txt", "Text", NoManifest, {}),
    File("api.csproj", ".csproj", "XML", Manifest("csproj", "api", <<>>), {}),
    File("app.nt", ".nt", "", NoManifest, {}),
    File("docker-compose.yml", ".yml", "YAML",
         Manifest("compose", "", <<Item("db", "postgres", "15")>>), {}),
    File("docker-compose.yml", ".yml", "YAML",
         Manifest("compose", "", <<Item("virtual", "postgres", "15")>>), {}),
    File("main.cpp", ".cpp", "C++", NoManifest, {}),
    File("main.cpp", ".cpp", "C++", NoManifest, {"mfc"}),
    File("main.cpp", ".cpp", "C++", NoManifest, {"qt"}),
    File("mytech.json", ".json", "JSON", NoManifest, {}),
    File("newtech.conf.bak", ".bak", "", NoManifest, {}),
    File("pom.xml", ".xml", "XML",
         Manifest("pom", "svc", <<Item("org.postgresql:postgresql", "", "42.7")>>), {}),
    File("pom.xml", ".xml", "XML",
         Manifest("pom", "svc", <<Item("spring-boot", "", "3.2")>>), {}),
    File("pom.xml", ".xml", "XML",
         Manifest("pom", "svc", <<Item("io.quarkus:quarkus-core", "", "3.8")>>), {}),
    File("quarkus.conf.bak", ".bak", "", NoManifest, {}),
    File("serverless.yml", ".yml", "YAML", NoManifest, {}),
    File("svc.csproj", ".csproj", "XML",
         Manifest("csproj", "svc", <<Item("Npgsql", "", "8.0"), Item("Npgsql", "", "8.0")>>), {})
>>

FileIdx == 1..Len(FileUniverse)

\* A listing: files with distinct names.
Listings ==
    {L \in SUBSET FileIdx :
        /\ Cardinality(L) <= MaxFilesPerDir
        /\ \A i, j \in L : i # j => FileUniverse[i].name # FileUniverse[j].name}

RECURSIVE SortedSeq(_)
SortedSeq(S) == IF S = {} THEN <<>> ELSE <<MinOf(S)>> \o SortedSeq(S \ {MinOf(S)})

\* The listing as the provider returns it.
ListDir(L) == [i \in 1..Cardinality(L) |-> FileUniverse[SortedSeq(L)[i]]]

\* ------------------------------------------------------------------------
\* Exclusion patterns and ignored directories
\* ------------------------------------------------------------------------
\* A glob pattern is the sequence of its "/"-separated segments; a segment
\* is a literal name, "*", "**" or "*<suffix>".
Lit(text) == [kind |-> "lit", text |-> text]
Star == [kind |-> "star", text |-> ""]
DoubleStar == [kind |-> "doublestar", text |-> ""]
Suffix(text) == [kind |-> "suffix", text |-> text]

\* "**/__tests__/**", ".github" and "*.cpp".
TestsPattern == <<DoubleStar, Lit("__tests__"), DoubleStar>>
GithubPattern == <<Lit(".github")>>
CppPattern == <<Suffix(".cpp")>>

\* The extension of a name: that of the file of the universe, "" for a
\* directory name.
ExtOfName(name) ==
    IF \E i \in FileIdx : FileUniverse[i].name = name
    THEN FileUniverse[CHOOSE i \in FileIdx : FileUniverse[i].name = name].ext
    ELSE ""

\* One segment of a pattern against one path element.
segmentMatch(seg, name) ==
    CASE seg.kind = "lit"    -> seg.text = name
      [] seg.kind = "star"   -> TRUE
      [] seg.kind = "suffix" -> ExtOfName(name) = seg.text
      [] OTHER               -> FALSE

\* doublestar.Match on a path given as its elements: "**" stands for zero
\* or more elements, so "a/**" also matches "a".
RECURSIVE doublestarMatch(_, _)
doublestarMatch(pattern, path) ==
    IF pattern = <<>> THEN path = <<>>
    ELSE IF Head(pattern).kind = "doublestar"
         THEN \/ doublestarMatch(Tail(pattern), path)
              \/ path # <<>> /\ doublestarMatch(pattern, Tail(path))
    ELSE /\ path # <<>>
         /\ segmentMatch(Head(pattern), Head(path))
         /\ doublestarMatch(Tail(pattern), Tail(path))

\* strings.ToLower on the names of the model: one of them has capitals.
ToLower(name) == IF name = "Node_Modules" THEN "node_modules" ELSE name

\* strings.EqualFold(name, pattern) for a pattern that is one literal name.
EqualFold(name, pattern) ==
    /\ Len(pattern) = 1
    /\ pattern[1].kind = "lit"
    /\ ToLower(pattern[1].text) = ToLower(name)

\* The built-in ignore list, flattened.
GetFlatIgnoreList ==
    {"__fixtures__", "__snapshots__", ".git", ".gitlab", ".svn",
     "venv", ".venv", "__pycache__", ".pytest_cache", ".ruff_cache", ".mypy_cache",
     ".tox", ".coverage", ".hypothesis", ".eggs", "*.egg-info", ".pytype",
     "node_modules", ".npm", ".yarn", ".pnp", ".next", ".nuxt", ".vuepress",
     ".gradle", ".m2", "obj", "packages", ".bundle", "target",
     ".terraform", "terraform.tfstate.d", ".docker",
     ".azure", ".azure-pipelines", ".vercel", ".cache", ".artifacts", ".assets",
     ".vscode", ".idea", ".devcontainer", ".semgrep", ".release", ".changelog",
     ".serverless", ".fusebox", ".dynamodb", ".log", ".metadata", ".react-email"}

defaultIgnorePatterns == GetFlatIgnoreList

\* shouldIgnoreDirectory looking at the built-in list only.
shouldIgnoreDirectory_BuiltinOnly(name) ==
    \E pattern \in defaultIgnorePatterns : ToLower(name) = ToLower(pattern)

\* shouldIgnoreDirectory comparing the built-in names as prefixes: .git is
\* a prefix of .github.
shouldIgnoreDirectory_PrefixMatch(name) ==
    \/ \E i \in 1..Len(excludeDirs) :
           \/ doublestarMatch(excludeDirs[i], <<name>>)
           \/ EqualFold(name, excludeDirs[i])
    \/ \E pattern \in defaultIgnorePatterns : ToLower(name) = ToLower(pattern)
    \/ name = ".github"

shouldIgnoreDirectory(name) ==
    \/ \E i \in 1..Len(excludeDirs) :
           \/ doublestarMatch(excludeDirs[i], <<name>>)
           \/ EqualFold(name, excludeDirs[i])
    \/ \E pattern \in defaultIgnorePatterns : ToLower(name) = ToLower(pattern)

\* currentPath is relative to the base path, so the file's relative path
\* is currentPath followed by the name.
shouldExcludeFile(fileName, currentPath) ==
    /\ Len(excludeDirs) > 0
    /\ \E i \in 1..Len(excludeDirs) :
           \/ doublestarMatch(excludeDirs[i], currentPath \o <<fileName>>)
           \/ doublestarMatch(excludeDirs[i], <<fileName>>)

\* "/" + path of the file relative to the base path.
RelativeFilePath(currentPath, fileName) == currentPath \o <<fileName>>

\* currentPath as an absolute path, as it appears in reasons.
AbsPath(currentPath) == <<"BASE">> \o currentPath

\* ------------------------------------------------------------------------
\* Dependency resolution
\* ------------------------------------------------------------------------
\* Techs whose rule declares a dependency (depType, package).
MatchDependencies(package, depType) ==
    {Rules[i].tech : i \in {j \in RuleIdx : <<depType, package>> \in Rules[j].dependencies}}

\* "Take first match" of the detectors; "" when nothing matched.  Every
\* package of the corpus matches at most one rule.
FirstMatch(matched) == IF matched = {} THEN "" ELSE CHOOSE t \in matched : TRUE

\* ------------------------------------------------------------------------
\* Scanner: implicit components
\* ------------------------------------------------------------------------
ImplicitOrigin(p, r, addEdges) == [kind |-> "implicit", ctx |-> p, rule |-> r, addEdges |-> addEdges]

\* findImplicitComponent promoting the tech whatever is_primary_tech says.
findImplicitComponent_AlwaysPrimary(h, p, r, currentPath, addEdges) ==
    IF ~ShouldCreateComponent(Rules[r]) THEN h
    ELSE LET c  == Len(h) + 1
             h0 == NewPayload(h, Rules[r].name, h[p].path)
             h1 == [h0 EXCEPT ![c].origin = ImplicitOrigin(p, r, addEdges)]
             h2 == AddPrimaryTech(h1, c, Rules[r].tech)
             h3 == [h2 EXCEPT ![c].reason = Append(@, Reason("matched file", AbsPath(currentPath)))]
             h4 == AddChild(h3, p, c)
         IN IF addEdges /\ Rules[r].type # "hosting" /\ Rules[r].type # "cloud"
            THEN AddEdges(h4, p, c)
            ELSE h4

\* findImplicitComponent adding the edge whatever the rule's type.
findImplicitComponent_EdgeAnyType(h, p, r, currentPath, addEdges) ==
    IF ~ShouldCreateComponent(Rules[r]) THEN h
    ELSE LET c  == Len(h) + 1
             h0 == NewPayload(h, Rules[r].name, h[p].path)
             h1 == [h0 EXCEPT ![c].origin = ImplicitOrigin(p, r, addEdges)]
             h2 == IF ShouldAddPrimaryTech(Rules[r])
                   THEN AddPrimaryTech(h1, c, Rules[r].tech)
                   ELSE AddTech(h1, c, Rules[r].tech, Reason("matched file", AbsPath(currentPath)))
             h3 == [h2 EXCEPT ![c].reason = Append(@, Reason("matched file", AbsPath(currentPath)))]
             h4 == AddChild(h3, p, c)
         IN IF addEdges THEN AddEdges(h4, p, c) ELSE h4

findImplicitComponent(h, p, r, currentPath, addEdges) ==
    IF ~ShouldCreateComponent(Rules[r]) THEN h
    ELSE LET c  == Len(h) + 1
             h0 == NewPayload(h, Rules[r].name, h[p].path)
             h1 == [h0 EXCEPT ![c].origin = ImplicitOrigin(p, r, addEdges)]
             h2 == IF ShouldAddPrimaryTech(Rules[r])
                   THEN AddPrimaryTech(h1, c, Rules[r].tech)
                   ELSE AddTech(h1, c, Rules[r].tech, Reason("matched file", AbsPath(currentPath)))
             h3 == [h2 EXCEPT ![c].reason = Append(@, Reason("matched file", AbsPath(currentPath)))]
             h4 == AddChild(h3, p, c)
         IN IF addEdges /\ Rules[r].type # "hosting" /\ Rules[r].type # "cloud"
            THEN AddEdges(h4, p, c)
            ELSE h4

findImplicitComponentByTech(h, p, tech, currentPath, addEdges) ==
    IF RuleOfTech(tech) = 0 THEN h
    ELSE findImplicitComponent(h, p, RuleOfTech(tech), currentPath, addEdges)

RECURSIVE findImplicitComponentsByTechs(_, _, _, _, _)
findImplicitComponentsByTechs(h, p, techs, currentPath, addEdges) ==
    IF techs = <<>> THEN h
    ELSE findImplicitComponentsByTechs(
             findImplicitComponentByTech(h, p, Head(techs), currentPath, addEdges),
             p, Tail(techs), currentPath, addEdges)

addTechWithPrimaryCheck(h, p, tech, reason) ==
    LET h1 == AddTech(h, p, tech, reason)
    IN IF \E i \in RuleIdx : /\ Rules[i].tech = tech
                             /\ ShouldAddPrimaryTech(Rules[i])
                             /\ ~ShouldCreateComponent(Rules[i])
       THEN AddPrimaryTech(h1, p, tech)
       ELSE h1

\* ------------------------------------------------------------------------
\* Component detectors.  Each returns [h |-> heap, out |-> payload ids].
\* ------------------------------------------------------------------------
Detected(h, out) == [h |-> h, out |-> out]

RECURSIVE composeServices(_, _, _, _)
composeServices(h, payload, relativeFilePath, services) ==
    IF services = <<>> THEN h
    ELSE LET service == Head(services)
             first   == FirstMatch(MatchDependencies(service.image, "docker"))
             tech    == IF first = "" THEN "docker" ELSE first
             reason  == IF first = "" THEN Reason("matched", <<service.image>>)
                        ELSE Reason("matched dependency", <<service.image>>)
             c       == Len(h) + 1
             h1      == NewPayloadWithPath(h, service.name, relativeFilePath)
             h2      == AddPrimaryTech(h1, c, tech)
             h3      == [h2 EXCEPT ![c].dependencies =
                                       <<Dependency("docker", service.image, service.version)>>]
             h4      == AddTech(h3, c, tech, reason)
         IN IF service.image = ""
            THEN composeServices(h, payload, relativeFilePath, Tail(services))
            ELSE composeServices(AddChild(h4, payload, c), payload, relativeFilePath,
                                 Tail(services))

detectDockerCompose(h, file, currentPath) ==
    IF Len(file.manifest.items) = 0 THEN Detected(h, <<>>)
    ELSE LET rel == RelativeFilePath(currentPath, file.name)
             v   == Len(h) + 1
         IN Detected(composeServices(NewPayloadWithPath(h, "virtual", rel), v, rel,
                                     file.manifest.items), <<v>>)

RECURSIVE dotnetPackages(_, _, _, _)
dotnetPackages(h, payload, relativeFilePath, packages) ==
    IF packages = <<>> THEN h
    ELSE LET pkg       == Head(packages)
             dep       == Dependency("nuget", pkg.name, pkg.version)
             childTech == FirstMatch(MatchDependencies(pkg.name, "nuget"))
             c         == Len(h) + 1
             h1        == NewPayloadWithPath(h, pkg.name, relativeFilePath)
             h2        == AddPrimaryTech(h1, c, childTech)
             h3        == [h2 EXCEPT ![c].dependencies = <<dep>>]
             h4        == AddTech(h3, c, childTech, Reason("matched dependency", <<pkg.name>>))
             h5        == AddChild(h4, payload, c)
             h6        == IF childTech # "hosting" /\ childTech # "cloud"
                          THEN AddEdges(h5, payload, c) ELSE h5
         IN IF childTech # "" /\ childTech # "dotnet"
            THEN dotnetPackages(h6, payload, relativeFilePath, Tail(packages))
            ELSE dotnetPackages(h, payload, relativeFilePath, Tail(packages))

RECURSIVE PackageDependencies(_, _)
PackageDependencies(depType, items) ==
    IF items = <<>> THEN <<>>
    ELSE <<Dependency(depType, Head(items).name, Head(items).version)>>
         \o PackageDependencies(depType, Tail(items))

detectDotNetProject(h, file, currentPath) ==
    IF file.manifest.name = "" THEN Detected(h, <<>>)
    ELSE LET rel == RelativeFilePath(currentPath, file.name)
             p   == Len(h) + 1
             h1  == NewPayloadWithPath(h, file.manifest.name, rel)
             h2  == AddPrimaryTech(h1, p, "dotnet")
             h3  == AddTech(h2, p, "dotnet", Reason("matched file", <<file.name>>))
             h4  == dotnetPackages(h3, p, rel, file.manifest.items)
         IN Detected([h4 EXCEPT ![p].dependencies =
                                    PackageDependencies("nuget", file.manifest.items)], <<p>>)

\* matchedTechs of the pom's dependency names, added in map order; every
\* pom of the corpus matches at most one tech.
RECURSIVE pomTechs(_, _, _)
pomTechs(h, p, items) ==
    IF items = <<>> THEN h
    ELSE LET tech == FirstMatch(MatchDependencies(Head(items).name, "maven"))
         IN pomTechs(IF tech = "" THEN h
                     ELSE AddTech(h, p, tech, Reason("matched dependency", <<Head(items).name>>)),
                     p, Tail(items))

detectPomXML(h, file, currentPath) ==
    LET rel == RelativeFilePath(currentPath, file.name)
        p   == Len(h) + 1
        h1  == NewPayloadWithPath(h, file.manifest.name, rel)
        h2  == AddPrimaryTech(h1, p, "java")
        h3  == AddTech(h2, p, "maven", Reason("matched file", <<"pom.xml">>))
    IN IF Len(file.manifest.items) > 0
       THEN Detected([pomTechs(h3, p, file.manifest.items) EXCEPT ![p].dependencies =
                          PackageDependencies("maven", file.manifest.items)], <<p>>)
       ELSE Detected(h3, <<p>>)

\* The components found so far, followed by those of one more file.
Collect(d, one) == Detected(one.h, d.out \o one.out)

\* One detector's Detect over the listing, appended to the components d
\* of the detectors before it; the java detector stops at the first pom.xml.
RECURSIVE Detect(_, _, _, _)
Detect(kind, d, files, currentPath) ==
    IF files = <<>> THEN d
    ELSE IF Head(files).manifest.kind # kind THEN Detect(kind, d, Tail(files), currentPath)
    ELSE IF kind = "pom" THEN Collect(d, detectPomXML(d.h, Head(files), currentPath))
    ELSE IF kind = "csproj"
         THEN Detect(kind, Collect(d, detectDotNetProject(d.h, Head(files), currentPath)),
                     Tail(files), currentPath)
    ELSE Detect(kind, Collect(d, detectDockerCompose(d.h, Head(files), currentPath)),
                Tail(files), currentPath)

\* The registered detectors, in registration order.
GetDetectors == <<"compose", "csproj", "pom">>

RECURSIVE DetectWith(_, _, _, _)
DetectWith(detectors, d, files, currentPath) ==
    IF detectors = <<>> THEN d
    ELSE DetectWith(Tail(detectors), Detect(Head(detectors), d, files, currentPath),
                    files, currentPath)

\* ------------------------------------------------------------------------
\* Scanner: components of one directory
\* ------------------------------------------------------------------------
RECURSIVE AddTechsWithReason(_, _, _, _)
AddTechsWithReason(h, p, techs, reason) ==
    IF techs = <<>> THEN h
    ELSE AddTechsWithReason(AddTech(h, p, Head(techs), reason), p, Tail(techs), reason)

\* Merges components[2..] into components[1], the base.
RECURSIVE mergeInto(_, _, _)
mergeInto(h, base, components) ==
    IF components = <<>> THEN h
    ELSE LET comp == Head(components)
             h1   == [h EXCEPT ![base].tech = UnionSeq(@, h[comp].tech)]
             h2   == AddTechsWithReason(h1, base, h[comp].techs,
                                        Reason("merged from multiple detectors", <<>>))
             h3   == [h2 EXCEPT ![base].dependencies = @ \o h[comp].dependencies,
                                ![base].path = UnionSeq(@, h[comp].path),
                                ![base].licenses = UnionSeq(@, h[comp].licenses)]
             h4   == [h3 EXCEPT ![base].reason = @ \o h[comp].reason]
         IN mergeInto(h4, base, Tail(components))

\* A mergeComponents that keeps the base as it is.
mergeComponents_BaseOnly(h, components) == h

mergeComponents(h, components) == mergeInto(h, Head(components), Tail(components))

mergeVirtualPayload(h, target, virtual, currentPath) ==
    LET h1 == AddChildren(h, target, h[virtual].childs)
        h2 == Combine(h1, target, virtual)
    IN findImplicitComponentsByTechs(h2, target, h2[virtual].techs, currentPath, FALSE)

RECURSIVE mergeVirtualPayloads(_, _, _, _)
mergeVirtualPayloads(h, target, virtuals, currentPath) ==
    IF virtuals = <<>> THEN h
    ELSE mergeVirtualPayloads(mergeVirtualPayload(h, target, Head(virtuals), currentPath),
                              target, Tail(virtuals), currentPath)

addNamedComponent(h, payload, component, currentPath) ==
    LET h1 == AddChild(h, payload, component)
    IN findImplicitComponentsByTechs(h1, component, h1[component].techs, currentPath, TRUE)

Scanned(h, ctx) == [h |-> h, ctx |-> ctx]

\* A detectComponents whose context stays the payload the directory was
\* entered with.
processDetected_KeepContext(det, payload, ctx, currentPath) ==
    LET virtual == SelectSeq(det.out, LAMBDA c : det.h[c].name = "virtual")
        named   == SelectSeq(det.out, LAMBDA c : det.h[c].name # "virtual")
        h1      == mergeVirtualPayloads(det.h, payload, virtual, currentPath)
    IN IF Len(named) = 0 THEN Scanned(h1, ctx)
       ELSE Scanned(addNamedComponent(IF Len(named) = 1 THEN h1 ELSE mergeComponents(h1, named),
                                      payload, named[1], currentPath), ctx)

\* The second half of detectComponents: virtual payloads are merged into
\* the payload, named components become one child and the new context.
processDetected(det, payload, ctx, currentPath) ==
    LET virtual == SelectSeq(det.out, LAMBDA c : det.h[c].name = "virtual")
        named   == SelectSeq(det.out, LAMBDA c : det.h[c].name # "virtual")
        h1      == mergeVirtualPayloads(det.h, payload, virtual, currentPath)
    IN IF Len(named) = 0 THEN Scanned(h1, ctx)
       ELSE Scanned(addNamedComponent(IF Len(named) = 1 THEN h1 ELSE mergeComponents(h1, named),
                                      payload, named[1], currentPath), named[1])

detectComponents(h, payload, ctx, files, currentPath) ==
    processDetected(DetectWith(GetDetectors, Detected(h, <<>>), files, currentPath),
                    payload, ctx, currentPath)

\* ------------------------------------------------------------------------
\* Scanner: file, extension and content matchers
\* ------------------------------------------------------------------------
\* A pattern holding one of the characters * + ? [ ] ( ) | ^ $ \ . is taken
\* as a regular expression: every file pattern of the corpus holds a ".".
isRegexPattern(pattern) ==
    pattern \in {"serverless.yml", "CMakeLists.txt", "mytech.json", "newtech.conf", "quarkus.conf"}

\* regexp.MatchString finds the expression anywhere in the name: the names
\* of the universe each pattern of the corpus is found in.
matchRegex(pattern, fileName) ==
    IF pattern = "newtech.conf" THEN fileName \in {"newtech.conf", "newtech.conf.bak"}
    ELSE IF pattern = "quarkus.conf" THEN fileName \in {"quarkus.conf", "quarkus.conf.bak"}
    ELSE fileName = pattern

matchFileName(pattern, fileName) ==
    IF isRegexPattern(pattern) THEN matchRegex(pattern, fileName) ELSE fileName = pattern

HasMatchingFile(r, files) ==
    \E k \in 1..Len(Rules[r].files), i \in 1..Len(files) :
        matchFileName(Rules[r].files[k], files[i].name)

\* tech -> reason of the file matchers: the rules with files, package
\* managers excepted, the first of them per tech.
MatchFiles(files) ==
    LET hit == {r \in RuleIdx : /\ Len(Rules[r].files) > 0
                                /\ Rules[r].type # "package_manager"
                                /\ HasMatchingFile(r, files)}
        firstFile(r) == LET k == MinOf({j \in 1..Len(Rules[r].files) :
                                         \E i \in 1..Len(files) :
                                            matchFileName(Rules[r].files[j], files[i].name)})
                        IN Rules[r].files[k]
    IN [t \in {Rules[r].tech : r \in hit} |->
           Reason("matched file", <<firstFile(MinOf({r \in hit : Rules[r].tech = t}))>>)]

\* tech -> reason of the extension matchers: rules with extensions and no
\* content requirement, package managers excepted.
MatchExtensions(files) ==
    LET hit == {r \in RuleIdx : /\ Rules[r].extensions # {}
                                /\ ~Rules[r].content
                                /\ Rules[r].type # "package_manager"
                                /\ \E i \in 1..Len(files) : files[i].ext \in Rules[r].extensions}
        ext(r) == CHOOSE e \in Rules[r].extensions : \E i \in 1..Len(files) : files[i].ext = e
    IN [t \in {Rules[r].tech : r \in hit} |->
           Reason("matched extension", <<ext(MinOf({r \in hit : Rules[r].tech = t}))>>)]

\* The content matcher registry: rules with content patterns and
\* extensions and without dependencies.
HasContentMatchers(ext) ==
    \E r \in RuleIdx : /\ Rules[r].dependencies = {}
                       /\ Rules[r].content
                       /\ ext \in Rules[r].extensions

MatchContent(ext, file) ==
    {t \in file.content : \E r \in RuleIdx : /\ Rules[r].tech = t
                                             /\ Rules[r].dependencies = {}
                                             /\ Rules[r].content
                                             /\ ext \in Rules[r].extensions}

getTechsWithContentRules == {Rules[r].tech : r \in {i \in RuleIdx : Rules[i].content}}

\* A removeTechFromPayload that leaves techs[] as it is.
removeTechFromPayload_PrimaryOnly(h, p, tech) == [h EXCEPT ![p].tech = RemoveAll(@, tech)]

removeTechFromPayload(h, p, tech) ==
    [h EXCEPT ![p].techs = RemoveAll(@, tech), ![p].tech = RemoveAll(@, tech)]

Matched(h, matchedTechs) == [h |-> h, matchedTechs |-> matchedTechs]

\* order is the iteration order of the matches map.
\* m holds the heap and the matchedTechs map on entry.
RECURSIVE processTechMatches(_, _, _, _, _, _)
processTechMatches(m, ctx, matches, order, currentPath, addEdges) ==
    IF order = <<>> THEN m
    ELSE LET tech == Head(order)
             h1   == addTechWithPrimaryCheck(m.h, ctx, tech, matches[tech])
             h2   == findImplicitComponentByTech(h1, ctx, tech, currentPath, addEdges)
         IN IF tech \in m.matchedTechs
            THEN processTechMatches(m, ctx, matches, Tail(order), currentPath, addEdges)
            ELSE processTechMatches(Matched(h2, m.matchedTechs \cup {tech}), ctx, matches,
                                    Tail(order), currentPath, addEdges)

\* The content matches of one file.  A file of the corpus satisfies the
\* content pattern of at most one tech, so the map holds at most one entry.
RECURSIVE contentMatchesOfFile(_, _, _, _)
contentMatchesOfFile(m, ctx, contentMatches, currentPath) ==
    IF contentMatches = {} THEN m
    ELSE LET tech == CHOOSE t \in contentMatches : TRUE
             h1   == AddTech(m.h, ctx, tech, Reason("content matched", <<tech>>))
         IN contentMatchesOfFile(
                Matched(IF tech \in m.matchedTechs THEN h1
                        ELSE findImplicitComponentByTech(h1, ctx, tech, currentPath, FALSE),
                        m.matchedTechs \cup {tech}),
                ctx, contentMatches \ {tech}, currentPath)

\* The loop over the files: [m, validatedTechs].
RECURSIVE contentOfFiles(_, _, _, _, _)
contentOfFiles(m, ctx, files, validatedTechs, currentPath) ==
    IF files = <<>> THEN [m |-> m, validatedTechs |-> validatedTechs]
    ELSE LET file == Head(files)
             cm   == MatchContent(file.ext, file)
         IN IF file.ext = "" \/ ~HasContentMatchers(file.ext)
            THEN contentOfFiles(m, ctx, Tail(files), validatedTechs, currentPath)
            ELSE contentOfFiles(contentMatchesOfFile(m, ctx, cm, currentPath), ctx,
                                Tail(files), validatedTechs \cup cm, currentPath)

RECURSIVE removeTechs(_, _, _)
removeTechs(h, p, techs) ==
    IF techs = {} THEN h
    ELSE LET t == CHOOSE x \in techs : TRUE
         IN removeTechs(removeTechFromPayload(h, p, t), p, techs \ {t})

\* The end of detectByContent: a tech with content rules that was matched
\* and that no file validated is taken back.
revokeUnvalidated(res, ctx) ==
    LET revoked == {t \in getTechsWithContentRules :
                       t \in res.m.matchedTechs /\ t \notin res.validatedTechs}
    IN Matched(removeTechs(res.m.h, ctx, revoked), res.m.matchedTechs \ revoked)

detectByContent(m, ctx, files, currentPath) ==
    revokeUnvalidated(contentOfFiles(m, ctx, files, {}, currentPath), ctx)

\* fileOrder and extOrder are the iteration orders of the two match maps.
detectByFilesAndExtensions(h, ctx, files, currentPath, fileOrder, extOrder) ==
    detectByContent(
        processTechMatches(
            processTechMatches(Matched(h, {}), ctx, MatchFiles(files), fileOrder,
                               currentPath, TRUE),
            ctx, MatchExtensions(files), extOrder, currentPath, FALSE),
        ctx, files, currentPath)

matchRuleFiles(r, files) ==
    \E k \in 1..Len(Rules[r].files), i \in 1..Len(files) : files[i].name = Rules[r].files[k]

RECURSIVE detectLegacyFrom(_, _, _, _)
detectLegacyFrom(r, m, ctx, files) ==
    IF r > Len(Rules) THEN m.h
    ELSE IF Len(Rules[r].files) = 0 \/ Rules[r].tech \in m.matchedTechs
              \/ ~matchRuleFiles(r, files)
         THEN detectLegacyFrom(r + 1, m, ctx, files)
    ELSE detectLegacyFrom(r + 1,
             Matched(addTechWithPrimaryCheck(m.h, ctx, Rules[r].tech,
                                             Reason("matched file", <<Rules[r].files[1]>>)),
                     m.matchedTechs \cup {Rules[r].tech}),
             ctx, files)

detectLegacyFiles(m, ctx, files) == detectLegacyFrom(1, m, ctx, files)

\* The matchers of applyRules on the context c that detectComponents returned.
matchOnContext(c, files, currentPath, fileOrder, extOrder) ==
    Scanned(detectLegacyFiles(detectByFilesAndExtensions(c.h, c.ctx, files, currentPath,
                                                         fileOrder, extOrder),
                              c.ctx, files),
            c.ctx)

\* Component detection, then the matchers on the resulting context.
applyRules(h, payload, files, currentPath, fileOrder, extOrder) ==
    matchOnContext(detectComponents(h, payload, payload, files, currentPath),
                   files, currentPath, fileOrder, extOrder)

\* ------------------------------------------------------------------------
\* The scan as a state machine
\* ------------------------------------------------------------------------
\* A frame is one activation of recurse: the payload it was called with,
\* the context applyRules returned, the directory and the files of the
\* listing the loop has not reached yet.
Frame(payload, ctx, path, files) == [payload |-> payload, ctx |-> ctx, path |-> path, files |-> files]

Top == stack[Len(stack)]

Root == 1

\* The directory names of the default scan; .git is on the built-in ignore
\* list.
DefaultDirNames == <<".git", "a", "b", "c", "d">>

\* Project configurations with exclusions and forced techs, and the
\* directory names their scans meet.
TechConfig(tech, reason) == [tech |-> tech, reason |-> reason]

Configurations ==
    {[excludeDirs |-> <<TestsPattern, CppPattern>>,
      cfgTechs    |-> <<TechConfig("newtech", Reason("configured", <<"newtech">>))>>,
      dirNames    |-> <<".github", "Node_Modules", "__tests__", "fixture", "src">>],
     [excludeDirs |-> <<GithubPattern>>,
      cfgTechs    |-> <<>>,
      dirNames    |-> <<".github">>]}

InitPayload ==
    /\ heap = NewPayloadWithPath(<<>>, "main", <<>>)
    /\ stack = <<>>
    /\ status = "start"
    /\ dirsVisited = 0
    /\ filesListed = 0
    /\ attributed = 0
    /\ providerLog = {}
    /\ document = <<>>
    /\ result = <<>>
    /\ arrays = <<>>
    /\ pathOf = <<>>

\* A scanner without exclusions on a project without configuration.
Init ==
    /\ InitPayload
    /\ excludeDirs = <<>>
    /\ cfgTechs = <<>>
    /\ dirNames = DefaultDirNames

\* A scanner on a configured project.
InitConfigured ==
    /\ InitPayload
    /\ \E c \in Configurations :
          /\ excludeDirs = c.excludeDirs
          /\ cfgTechs = c.cfgTechs
          /\ dirNames = c.dirNames

\* The calls made on the provider: ListDir of a directory with the listing
\* it returned, ReadFile of a file for content matching, and the
\* directories the walk skipped.
Listed(path, files) == [op |-> "ListDir", path |-> path, name |-> "", files |-> files]
Read(path, name) == [op |-> "ReadFile", path |-> path, name |-> name, files |-> <<>>]
Skipped(path, name) == [op |-> "Skipped", path |-> path, name |-> name, files |-> <<>>]

\* The files detectByContent reads: those with an extension that has
\* content matchers.
contentReads(files, currentPath) ==
    {Read(currentPath, files[i].name) :
        i \in {j \in 1..Len(files) : files[j].ext # "" /\ HasContentMatchers(files[j].ext)}}

\* The directories recurse has listed, the root included.
Entered == Cardinality({e \in providerLog : e.op = "ListDir"})

\* The name of the next subdirectory the walk meets.
NextDir == dirNames[dirsVisited]

HasNextDir == dirsVisited <= Len(dirNames)

\* Scan adds the configured techs to the root payload.
RECURSIVE AddConfiguredTechs(_, _, _)
AddConfiguredTechs(h, p, techs) ==
    IF techs = <<>> THEN h
    ELSE AddConfiguredTechs(AddTech(h, p, Head(techs).tech, Head(techs).reason), p, Tail(techs))

\* The frame of recurse once applyRules has returned res.
Push(res, payload, path, L) ==
    /\ heap' = res.h
    /\ stack' = Append(stack, Frame(payload, res.ctx, path, ListDir(L)))
    /\ dirsVisited' = dirsVisited + 1
    /\ filesListed' = filesListed + Cardinality(L)
    /\ providerLog' = providerLog \cup {Listed(path, ListDir(L))}
                                   \cup contentReads(ListDir(L), path)
    /\ UNCHANGED <<attributed, inputs, call, slices>>

\* recurse up to its loop: the listing L of the directory and applyRules.
Enter(h, payload, path, L) ==
    \E fileOrder \in Perms(DOMAIN MatchFiles(ListDir(L))),
       extOrder \in Perms(DOMAIN MatchExtensions(ListDir(L))) :
        Push(applyRules(h, payload, ListDir(L), path, fileOrder, extOrder),
             payload, path, L)

\* Scan adds the configured techs and calls recurse on the base path.
ScanRoot ==
    /\ status = "start"
    /\ \E L \in Listings :
        /\ Cardinality(L) <= MaxFiles
        /\ Enter(AddConfiguredTechs(heap, Root, cfgTechs), Root, <<>>, L)
    /\ status' = "scanning"

\* The loop of recurse reaches a subdirectory that is not ignored.
RecurseInto ==
    /\ status = "scanning"
    /\ stack # <<>>
    /\ Entered < MaxDirs
    /\ HasNextDir
    /\ ~shouldIgnoreDirectory(NextDir)
    /\ \E L \in Listings :
        /\ filesListed + Cardinality(L) <= MaxFiles
        /\ Enter(heap, Top.ctx, Top.path \o <<NextDir>>, L)
    /\ UNCHANGED status

\* The loop of recurse reaches a subdirectory that is ignored: it moves on.
SkipDirectory ==
    /\ status = "scanning"
    /\ stack # <<>>
    /\ HasNextDir
    /\ shouldIgnoreDirectory(NextDir)
    /\ dirsVisited' = dirsVisited + 1
    /\ providerLog' = providerLog \cup {Skipped(Top.path, NextDir)}
    /\ UNCHANGED <<heap, stack, status, filesListed, attributed, inputs, call, slices>>

\* The loop of recurse reaches a regular file: DetectLanguage on the
\* context, unless the file is excluded.
VisitFile ==
    /\ status = "scanning"
    /\ stack # <<>>
    /\ Top.files # <<>>
    /\ LET file == Head(Top.files)
           counted == file.lang # "" /\ ~shouldExcludeFile(file.name, Top.path)
       IN /\ heap' = IF counted THEN AddLanguage(heap, Top.ctx, file.lang) ELSE heap
          /\ attributed' = IF counted THEN attributed + 1 ELSE attributed
    /\ stack' = [stack EXCEPT ![Len(stack)].files = Tail(@)]
    /\ UNCHANGED <<status, dirsVisited, filesListed, inputs, call, slices, providerLog>>

\* The loop of recurse ends; recurse returns nil.
Return ==
    /\ status = "scanning"
    /\ stack # <<>>
    /\ Top.files = <<>>
    /\ stack' = SubSeq(stack, 1, Len(stack) - 1)
    /\ status' = IF Len(stack) = 1 THEN "done" ELSE status
    /\ UNCHANGED <<heap, dirsVisited, filesListed, attributed, inputs, call, slices, providerLog>>

\* ListDir fails: recurse returns the error, every caller returns it, and
\* Scan returns no payload.
ListDirFails ==
    /\ status \in {"start", "scanning"}
    /\ status = "scanning" =>
          (stack # <<>> /\ Entered < MaxDirs /\ HasNextDir /\ ~shouldIgnoreDirectory(NextDir))
    /\ status' = "error"
    /\ stack' = <<>>
    /\ UNCHANGED <<heap, dirsVisited, filesListed, attributed, inputs, call, slices, providerLog>>

Next == ScanRoot \/ RecurseInto \/ SkipDirectory \/ VisitFile \/ Return \/ ListDirFails

Spec == Init /\ [][Next]_vars

SpecConfigured == InitConfigured /\ [][Next]_vars

\* ------------------------------------------------------------------------
\* The payload operations on their own
\* ------------------------------------------------------------------------
\* The contents a virtual payload is drawn with.
VirtualContents ==
    [language     : {"", "XML"},
     tech         : {<<>>, <<"java">>},
     techs        : {<<>>, <<"spring">>},
     dependencies : {<<>>, <<Dependency("maven", "org.postgresql:postgresql", "42.7")>>},
     licenses     : {<<>>, <<"MIT">>}]

VirtualPayload(v) ==
    [NewPayloadRec("virtual", <<<<"pom.xml">>>>) EXCEPT
        !.languages = [l \in Languages |-> IF l = v.language THEN 1 ELSE 0],
        !.tech = v.tech,
        !.techs = v.techs,
        !.dependencies = v.dependencies,
        !.licenses = v.licenses]

\* The names and primary techs children are drawn with.
ChildNames == {"api", "svc"}

ChildTechs == {<<>>, <<"dotnet">>, <<"java">>}

ChildPayload(name, tech) == [NewPayloadRec(name, <<<<name>>>>) EXCEPT !.tech = tech]

\* A context payload and a virtual payload.
InitOperations ==
    /\ \E v \in VirtualContents :
          heap = Append(NewPayloadWithPath(<<>>, "main", <<>>), VirtualPayload(v))
    /\ stack = <<>>
    /\ status = "payload"
    /\ dirsVisited = 0
    /\ filesListed = 0
    /\ attributed = 0
    /\ providerLog = {}
    /\ document = <<>>
    /\ result = <<>>
    /\ arrays = <<>>
    /\ pathOf = <<>>
    /\ excludeDirs = <<>>
    /\ cfgTechs = <<>>
    /\ dirNames = <<>>

\* C.Combine(P) on the context with a virtual payload.
CombineVirtual ==
    /\ status = "payload"
    /\ \E P \in 1..Len(heap) :
          /\ heap[P].name = "virtual"
          /\ \A l \in Languages : heap[Root].languages[l] < MaxLanguageCount
          /\ heap' = Combine(heap, Root, P)
    /\ UNCHANGED <<stack, status, dirsVisited, filesListed, attributed, inputs, call, slices, providerLog>>

\* parent.AddChild(service) with a new payload.
AddChildCall ==
    /\ status = "payload"
    /\ Len(heap) < MaxPayloads
    /\ \E name \in ChildNames, tech \in ChildTechs :
          heap' = AddChild(Append(heap, ChildPayload(name, tech)), Root, Len(heap) + 1)
    /\ UNCHANGED <<stack, status, dirsVisited, filesListed, attributed, inputs, call, slices, providerLog>>

NextOperations == CombineVirtual \/ AddChildCall

SpecPayload == InitOperations /\ [][NextOperations]_vars

\* ------------------------------------------------------------------------
\* Parser: docker-compose
\* ------------------------------------------------------------------------
\* A line of a compose file: its indentation, the mapping key and the
\* value after the colon ("" when the line holds the key alone).
ComposeLine(indent, key, value) == [indent |-> indent, key |-> key, value |-> value]

ComposeIndents == {0, 2, 4}

ComposeKeys == {"services", "web", "db", "image"}

ComposeLines ==
    {ComposeLine(n, k, IF k = "image" THEN "nginx" ELSE "") : n \in ComposeIndents, k \in ComposeKeys}

\* The lines between i and j are all indented deeper than n.
Nested(doc, i, j, n) == \A k \in (i + 1)..(j - 1) : doc[k].indent > n

\* A block mapping: it starts at column 0, only a line holding a key alone
\* has lines indented under it, a line that is indented less than the one
\* before it returns to the column of an open mapping, and the keys of one
\* mapping differ.
WellFormedYaml(doc) ==
    /\ doc # <<>>
    /\ doc[1].indent = 0
    /\ \A i \in 2..Len(doc) :
          /\ doc[i].indent > doc[i - 1].indent => doc[i - 1].value = ""
          /\ doc[i].indent < doc[i - 1].indent =>
                \E j \in 1..(i - 1) : doc[j].indent = doc[i].indent /\ Nested(doc, j, i, doc[i].indent)
    /\ \A i, j \in 1..Len(doc) :
          (i < j /\ doc[i].indent = doc[j].indent /\ Nested(doc, i, j, doc[i].indent))
          => doc[i].key # doc[j].key

ComposeFiles ==
    {doc \in UNION {[1..n -> ComposeLines] : n \in 1..MaxLines} : WellFormedYaml(doc)}

DockerService(name, image) == [name |-> name, image |-> image]

NoService == DockerService("", "")

\* dockerComposeState before the first line.
NewComposeState ==
    [services |-> <<>>, inServices |-> FALSE, servicesIndent |-> 0,
     currentService |-> NoService, currentIndent |-> 0]

saveCurrentService(s) ==
    IF s.currentService.name # ""
    THEN [s EXCEPT !.services = Append(@, s.currentService), !.currentService = NoService]
    ELSE s

\* The trimmed line is "services:".
isServicesLine(line) == line.key = "services" /\ line.value = ""

\* Every line of the model holds a colon.
isLeavingServices(s, line) == line.indent <= s.servicesIndent /\ ~isServicesLine(line)

\* serviceRegex finds a key followed by a colon on every line of the model.
isServiceDefinition(s, line) == line.indent = s.servicesIndent + 2

parseServiceDefinition(s, line) ==
    [saveCurrentService(s) EXCEPT !.currentService = DockerService(line.key, ""),
                                  !.currentIndent = line.indent]

\* imageRegex needs a value after "image:".
parseServiceProperties(s, line) ==
    IF /\ s.currentService.name # ""
       /\ line.key = "image"
       /\ line.value # ""
       /\ line.indent > s.currentIndent
    THEN [s EXCEPT !.currentService.image = line.value]
    ELSE s

parseLine(s, line) ==
    IF isServicesLine(line)
    THEN [s EXCEPT !.inServices = TRUE, !.servicesIndent = line.indent]
    ELSE IF s.inServices /\ isLeavingServices(s, line)
    THEN [saveCurrentService(s) EXCEPT !.inServices = FALSE]
    ELSE IF ~s.inServices THEN s
    ELSE IF isServiceDefinition(s, line) THEN parseServiceDefinition(s, line)
    ELSE parseServiceProperties(s, line)

RECURSIVE parseLines(_, _)
parseLines(s, lines) ==
    IF lines = <<>> THEN s ELSE parseLines(parseLine(s, Head(lines)), Tail(lines))

ParseDockerCompose(content) == saveCurrentService(parseLines(NewComposeState, content)).services

\* ------------------------------------------------------------------------
\* Parser: Gradle
\* ------------------------------------------------------------------------
\* A configuration name is the sequence of its camel-case words:
\* <<"compile", "Only">> is compileOnly.  The first word is in lower case
\* and the others are capitalised, so one name is a prefix of another as a
\* string exactly when it is one as a sequence of words.
depTypes ==
    <<<<"implementation">>, <<"compile">>, <<"test", "Implementation">>, <<"api">>,
      <<"compile", "Only">>, <<"runtime", "Only">>, <<"test", "Runtime", "Only">>,
      <<"annotation", "Processor">>>>

\* The configuration names of the declarations of the model.
GradleConfigurations ==
    Range(depTypes) \cup {<<"test", "Annotation", "Processor">>, <<"compile", "Only", "Api">>}

\* The quoted string of a declaration, split at its colons.
GradleCoordinates == {<<"org.projectlombok", "lombok", "1.18.24">>, <<"invalid-dependency-format">>}

\* A declaration line: configuration name and quoted string.
GradleLine(config, parts) == [config |-> config, parts |-> parts]

GradleLines == {GradleLine(c, q) : c \in GradleConfigurations, q \in GradleCoordinates}

GradleFiles == UNION {[1..n -> GradleLines] : n \in 1..MaxDeclarations}

IsPrefix(a, b) == Len(a) <= Len(b) /\ SubSeq(b, 1, Len(a)) = a

\* strings.Contains(line, depType): a configuration name holds a lower-case
\* word only at its start.
ContainsDepType(line, depType) == IsPrefix(depType, line.config)

isPotentialDependencyLine(line) ==
    /\ \E i \in 1..Len(depTypes) : ContainsDepType(line, depTypes[i])
    /\ Len(line.parts) >= 2

\* depTypeRegex is anchored at the start of the line and not at the end of
\* the name.  The result is a sequence of no or one dependency; the name
\* group:artifact is kept as the pair of its parts.
parseGradleDependency(line) ==
    IF ~(\E i \in 1..Len(depTypes) : IsPrefix(depTypes[i], line.config)) THEN <<>>
    ELSE IF Len(line.parts) < 2 \/ line.parts[1] = "" \/ line.parts[2] = "" THEN <<>>
    ELSE <<Dependency("gradle", <<line.parts[1], line.parts[2]>>,
                      IF Len(line.parts) >= 3 /\ line.parts[3] # "" THEN line.parts[3] ELSE "latest")>>

RECURSIVE ParseGradle(_)
ParseGradle(content) ==
    IF content = <<>> THEN <<>>
    ELSE (IF isPotentialDependencyLine(Head(content))
          THEN parseGradleDependency(Head(content)) ELSE <<>>)
         \o ParseGradle(Tail(content))

\* ------------------------------------------------------------------------
\* Parser: pom.xml
\* ------------------------------------------------------------------------
\* A <properties> element is the sequence of its properties; a pom holds
\* its <properties> elements in document order (the project's own and those
\* of profiles) and the <dependency> elements of project/dependencies.
Property(name, value) == [name |-> name, value |-> value]

PropertiesElements ==
    {<<>>,
     <<Property("spring.version", "2.7.0")>>,
     <<Property("spring.version", "")>>,
     <<Property("junit.version", "5.8.2")>>}

\* The text of a <version> element: empty, a literal, or ${name}.
NoVersion == [kind |-> "empty", text |-> ""]
Literal(text) == [kind |-> "literal", text |-> text]
Reference(name) == [kind |-> "reference", text |-> name]

Versions == {NoVersion, Literal("4.6.1"), Reference("spring.version"), Reference("undefined.version")}

MavenDependency(groupId, artifactId, version) ==
    [groupId |-> groupId, artifactId |-> artifactId, version |-> version]

MavenDependencies == {MavenDependency("org.springframework.boot", "spring-boot-starter-web", v) : v \in Versions}

Pom(properties, dependencies) == [properties |-> properties, dependencies |-> dependencies]

PomFiles ==
    {Pom(ps, ds) : ps \in UNION {[1..n -> PropertiesElements] : n \in 0..2},
                   ds \in UNION {[1..n -> MavenDependencies] : n \in 1..MaxDeclarations}}

\* The properties map: propertiesRegex finds the first <properties> element
\* of the text only, and a property without a value is left out.
extractProperties(content) ==
    IF content.properties = <<>> THEN <<>>
    ELSE SelectSeq(content.properties[1], LAMBDA prop : prop.name # "" /\ prop.value # "")

HasProperty(properties, name) == \E i \in 1..Len(properties) : properties[i].name = name

\* properties[name]: the last assignment to the key.
PropertyValue(properties, name) ==
    properties[CHOOSE i \in 1..Len(properties) :
                  /\ properties[i].name = name
                  /\ \A j \in (i + 1)..Len(properties) : properties[j].name # name].value

\* The version as a string again: ${name} for a reference.
VersionText(version) ==
    IF version.kind = "reference" THEN <<"${", version.text, "}">> ELSE <<version.text>>

resolveVersion(version, properties) ==
    IF version.kind = "empty" THEN <<"latest">>
    ELSE IF version.kind = "reference" /\ HasProperty(properties, version.text)
    THEN <<PropertyValue(properties, version.text)>>
    ELSE VersionText(version)

RECURSIVE pomDependencies(_, _)
pomDependencies(deps, properties) ==
    IF deps = <<>> THEN <<>>
    ELSE (IF Head(deps).groupId # "" /\ Head(deps).artifactId # ""
          THEN <<Dependency("maven", <<Head(deps).groupId, Head(deps).artifactId>>,
                            resolveVersion(Head(deps).version, properties))>>
          ELSE <<>>)
         \o pomDependencies(Tail(deps), properties)

ParsePomXML(content) == pomDependencies(content.dependencies, extractProperties(content))

\* ------------------------------------------------------------------------
\* Aggregator: dependencies
\* ------------------------------------------------------------------------
\* The strings of the dependencies are sequences of characters here, so
\* that the key type|name|version is the string the code builds.
Sep == "|"

Strings == {<<"a">>, <<"a", Sep, "a">>}

AggregatedDependencies == {Dependency(<<"m">>, n, v) : n \in Strings, v \in Strings}

DependencyLists == UNION {[1..n -> AggregatedDependencies] : n \in 0..MaxDeclarations}

\* A payload tree reduced to what collectDependencies reads.
Node(dependencies, childs) == [dependencies |-> dependencies, childs |-> childs]

PayloadTrees == {Node(d, <<Node(e, <<>>)>>) : d, e \in DependencyLists}

\* key := dep.Type + "|" + dep.Name + "|" + dep.Example
DependencyKey(dep) == dep.type \o <<Sep>> \o dep.name \o <<Sep>> \o dep.example

\* depMap[key] = dep for the dependencies of a payload, in order; the map
\* is the set of its entries.
RECURSIVE putDependencies(_, _)
putDependencies(depMap, deps) ==
    IF deps = <<>> THEN depMap
    ELSE putDependencies({e \in depMap : e.key # DependencyKey(Head(deps))}
                            \cup {[key |-> DependencyKey(Head(deps)), dep |-> Head(deps)]},
                         Tail(deps))

RECURSIVE collectDependenciesRecursive(_, _)
RECURSIVE collectChildren(_, _)
collectChildren(childs, depMap) ==
    IF childs = <<>> THEN depMap
    ELSE collectChildren(Tail(childs), collectDependenciesRecursive(Head(childs), depMap))

collectDependenciesRecursive(payload, depMap) ==
    collectChildren(payload.childs, putDependencies(depMap, payload.dependencies))

\* The byte order of the characters: "a" is 97 and "|" is 124.
CharCode(c) == IF c = Sep THEN 124 ELSE 97

RECURSIVE StringLess(_, _)
StringLess(a, b) ==
    IF b = <<>> THEN FALSE
    ELSE IF a = <<>> THEN TRUE
    ELSE IF Head(a) # Head(b) THEN CharCode(Head(a)) < CharCode(Head(b))
    ELSE StringLess(Tail(a), Tail(b))

\* The less function of sort.Slice: by type, then name, then version.
DependencyLess(x, y) ==
    IF x.type # y.type THEN StringLess(x.type, y.type)
    ELSE IF x.name # y.name THEN StringLess(x.name, y.name)
    ELSE StringLess(x.example, y.example)

RECURSIVE SortedDependencies(_)
SortedDependencies(S) ==
    IF S = {} THEN <<>>
    ELSE <<CHOOSE x \in S : \A y \in S \ {x} : DependencyLess(x, y)>>
         \o SortedDependencies(S \ {CHOOSE x \in S : \A y \in S \ {x} : DependencyLess(x, y)})

collectDependencies(payload) ==
    SortedDependencies({e.dep : e \in collectDependenciesRecursive(payload, {})})

\* ------------------------------------------------------------------------
\* The parsers and the aggregator on their own
\* ------------------------------------------------------------------------
Document(kind, body) == [kind |-> kind, body |-> body]

Documents ==
    {Document("compose", doc) : doc \in ComposeFiles}
    \cup {Document("gradle", doc) : doc \in GradleFiles}
    \cup {Document("pom", doc) : doc \in PomFiles}
    \cup {Document("tree", doc) : doc \in PayloadTrees}

InitParsers ==
    /\ document \in Documents
    /\ result = <<>>
    /\ arrays = <<>>
    /\ pathOf = <<>>
    /\ status = "call"
    /\ heap = NewPayloadWithPath(<<>>, "main", <<>>)
    /\ stack = <<>>
    /\ dirsVisited = 0
    /\ filesListed = 0
    /\ attributed = 0
    /\ providerLog = {}
    /\ excludeDirs = <<>>
    /\ cfgTechs = <<>>
    /\ dirNames = <<>>

\* The call returns: the value is kept and nothing else changes.
Returns(value) ==
    /\ result' = value
    /\ status' = "returned"
    /\ UNCHANGED <<heap, stack, dirsVisited, filesListed, attributed, inputs, providerLog, document, slices>>

ParseDockerComposeCall ==
    /\ status = "call"
    /\ document.kind = "compose"
    /\ Returns(ParseDockerCompose(document.body))

ParseGradleCall ==
    /\ status = "call"
    /\ document.kind = "gradle"
    /\ Returns(ParseGradle(document.body))

ParsePomXMLCall ==
    /\ status = "call"
    /\ document.kind = "pom"
    /\ Returns(ParsePomXML(document.body))

AggregateCall ==
    /\ status = "call"
    /\ document.kind = "tree"
    /\ Returns(collectDependencies(document.body))

NextParsers == ParseDockerComposeCall \/ ParseGradleCall \/ ParsePomXMLCall \/ AggregateCall

SpecParsers == InitParsers /\ [][NextParsers]_vars

\* ------------------------------------------------------------------------
\* Payload.Path as a Go slice
\* ------------------------------------------------------------------------
\* A slice header: the backing array it points to and its length; the
\* capacity is the length of the backing array.
Slice(array, len) == [array |-> array, len |-> len]

Cap(as, s) == Len(as[s.array])

\* The elements a payload's Path shows.
Elements(as, s) == SubSeq(as[s.array], 1, s.len)

\* The zero value of an array slot that was never written.
NoPath == <<"">>

\* The paths AddPath is called with.
PathNames == {<<"a">>, <<"b">>, <<"c">>, <<"d">>}

Appended(as, s) == [arrays |-> as, slice |-> s]

\* The backing array append allocates when the capacity is used up: twice
\* the capacity, the old elements copied.
GrownArray(old, x) ==
    [i \in 1..(IF Len(old) = 0 THEN 1 ELSE 2 * Len(old)) |->
        IF i <= Len(old) THEN old[i] ELSE IF i = Len(old) + 1 THEN x ELSE NoPath]

\* append(s, x): writes into the backing array when it has room, and
\* moves to a new array when it has none.
appendPath(as, s, x) ==
    IF s.len < Cap(as, s)
    THEN Appended([as EXCEPT ![s.array][s.len + 1] = x], Slice(s.array, s.len + 1))
    ELSE Appended(Append(as, GrownArray(Elements(as, s), x)), Slice(Len(as) + 1, s.len + 1))

\* p.AddPath(path) on the slice of p.Path.
AddPathSlice(as, s, path) ==
    IF path \in Range(Elements(as, s)) THEN Appended(as, s) ELSE appendPath(as, s, path)

\* NewPayloadWithPath("main", basePath): a slice of length and capacity 1.
InitPaths ==
    /\ arrays = <<<<<<>>>>>>
    /\ pathOf = <<Slice(1, 1)>>
    /\ status = "paths"
    /\ heap = NewPayloadWithPath(<<>>, "main", <<>>)
    /\ stack = <<>>
    /\ dirsVisited = 0
    /\ filesListed = 0
    /\ attributed = 0
    /\ providerLog = {}
    /\ document = <<>>
    /\ result = <<>>
    /\ excludeDirs = <<>>
    /\ cfgTechs = <<>>
    /\ dirNames = <<>>

UnchangedButSlices ==
    UNCHANGED <<heap, stack, status, dirsVisited, filesListed, attributed, inputs, providerLog, call>>

\* findImplicitComponent: types.NewPayload(rule.Name, payload.Path) stores
\* the parent's slice header in the component.
NewImplicitComponent ==
    /\ status = "paths"
    /\ Len(pathOf) < MaxSharing
    /\ \E parent \in 1..Len(pathOf) : pathOf' = Append(pathOf, pathOf[parent])
    /\ UNCHANGED arrays
    /\ UnchangedButSlices

\* AddPath on one of the payloads.
AddPathCall ==
    /\ status = "paths"
    /\ \E p \in 1..Len(pathOf), path \in PathNames :
          /\ pathOf[p].len < MaxPathLen
          /\ arrays' = AddPathSlice(arrays, pathOf[p], path).arrays
          /\ pathOf' = [pathOf EXCEPT ![p] = AddPathSlice(arrays, pathOf[p], path).slice]
    /\ UnchangedButSlices

NextPaths == NewImplicitComponent \/ AddPathCall

SpecPaths == InitPaths /\ [][NextPaths]_vars

\* ------------------------------------------------------------------------
\* The result tree
\* ------------------------------------------------------------------------
Payloads == 1..Len(heap)

RECURSIVE Reach(_)
Reach(S) ==
    LET N == S \cup UNION {Range(heap[p].childs) : p \in S}
    IN IF N = S THEN S ELSE Reach(N)

\* The payloads reachable from the root through childs.
Tree == Reach({Root})

Done == status = "done"

RECURSIVE SumOver(_, _)
SumOver(f, S) ==
    IF S = {} THEN 0
    ELSE LET x == CHOOSE y \in S : TRUE IN f[x] + SumOver(f, S \ {x})

LanguageCount(p) == SumOver(heap[p].languages, Languages)

TreeLanguageCount == SumOver([p \in Tree |-> LanguageCount(p)], Tree)

\* The implicit components findImplicitComponent has allocated.
Implicit == {c \in Payloads : heap[c].origin.kind = "implicit"}

RuleOf(c) == Rules[heap[c].origin.rule]

HasEdge(p, c) == \E i \in 1..Len(heap[p].edges) : heap[p].edges[i].target = c

\* ------------------------------------------------------------------------
\* Properties
\* ------------------------------------------------------------------------

\* C1: after a completed scan every entry of tech[] of every payload of
\* the result tree is an entry of its techs[].
C1_TechWithinTechs ==
    Done => \A p \in Tree : Range(heap[p].tech) \subseteq Range(heap[p].techs)

\* C2: after a completed scan the target of every edge of every payload
\* of the result tree is a payload of the result tree.
C2_EdgeTargetsInTree ==
    Done => \A p \in Tree : \A i \in 1..Len(heap[p].edges) : heap[p].edges[i].target \in Tree

\* C3: after a completed scan no payload of the result tree holds two
\* dependencies with equal (dep_type, name, version).
C3_DependenciesUnique ==
    Done => \A p \in Tree : NoDup(heap[p].dependencies)

\* C4: after a completed scan the languages counts summed over the result
\* tree equal the number of files of visited directories that were not
\* excluded and were attributed a language.
C4_LanguageSum ==
    Done => TreeLanguageCount = attributed

\* C5: after a completed scan no payload of the result tree is named
\* "virtual".
C5_NoVirtualInTree ==
    Done => \A p \in Tree : heap[p].name # "virtual"

\* C6: after a completed scan tech[], techs[], path[], licenses[] and
\* reason[] of every payload of the result tree hold no duplicate.
C6_ListsDuplicateFree ==
    Done => \A p \in Tree :
                /\ NoDup(heap[p].tech)
                /\ NoDup(heap[p].techs)
                /\ NoDup(heap[p].path)
                /\ NoDup(heap[p].licenses)
                /\ NoDup(heap[p].reason)

\* The types the classifier's tables know.
ConfiguredTypes == notAComponent \cup GetComponentTypes

\* C7: a rule with is_component unset and a type the type configuration
\* does not hold never gets an implicit child component.
C7_UnknownTypeNoComponent ==
    \A c \in Implicit :
        ~(RuleOf(c).is_component = "unset" /\ RuleOf(c).type \notin ConfiguredTypes)

\* The rule is a component whose is_primary_tech is false.
NonPrimaryComponent(rule) == ShouldCreateComponent(rule) /\ rule.is_primary_tech = "false"

PrimaryNonComponent(rule) == ~ShouldCreateComponent(rule) /\ rule.is_primary_tech = "true"

\* C9: a detected tech whose rule is not a component and has
\* is_primary_tech = true is in tech[] of the payload that lists it in
\* techs[], whichever path detected it.
C9_PrimaryNonComponentTech ==
    Done => \A p \in Tree : \A i \in 1..Len(heap[p].techs) :
                (/\ RuleOfTech(heap[p].techs[i]) # 0
                 /\ PrimaryNonComponent(Rules[RuleOfTech(heap[p].techs[i])]))
                => Contains(heap[p].tech, heap[p].techs[i])

ListedFiles == UNION {Range(e.files) : e \in providerLog}

\* The rules with at least one content predicate.
ContentRules == {r \in RuleIdx : Rules[r].content}

\* No file of the scanned tree satisfies a content predicate of the rule,
\* while some file has one of its extensions.
ContentUnsatisfied(rule) ==
    /\ \E f \in ListedFiles : f.ext \in rule.extensions
    /\ \A f \in ListedFiles : rule.tech \notin f.content

\* C11: after a completed scan, a rule with content predicates that has
\* files of its extensions in the scanned tree and no file satisfying a
\* content predicate has its tech in techs[] and tech[] of no payload of
\* the result tree.
C11_ContentGateRevokesEverywhere ==
    Done => \A r \in ContentRules :
                ContentUnsatisfied(Rules[r]) =>
                    \A p \in Tree : /\ ~Contains(heap[p].techs, Rules[r].tech)
                                    /\ ~Contains(heap[p].tech, Rules[r].tech)

\* C12: once the root directory has been listed, a listing failure of a
\* subdirectory does not end the scan with an error and without a payload:
\* the scan goes on with the siblings and completes.
C12_ListingFailureKeepsScan ==
    ~(status = "error" /\ Entered >= 1)

\* The named components the detectors return for a listing.
NamedOf(det) == SelectSeq(det.out, LAMBDA c : det.h[c].name # "virtual")

DetectedIn(files, path) == DetectWith(GetDetectors, Detected(heap, <<>>), files, path)

\* The manifest paths and the primary techs of the named components of a
\* listing.
NamedPaths(det) == UNION {Range(det.h[c].path) : c \in Range(NamedOf(det))}

NamedTechs(det) == UNION {Range(det.h[c].tech) : c \in Range(NamedOf(det))}

\* The children of the parent that carry one of the paths.
AttachedFor(parent, paths) ==
    {k \in 1..Len(heap[parent].childs) : Range(heap[heap[parent].childs[k]].path) \cap paths # {}}

AttachedOnce(parent, det) == Cardinality(AttachedFor(parent, NamedPaths(det))) = 1

AttachedChild(parent, det) ==
    heap[parent].childs[CHOOSE k \in AttachedFor(parent, NamedPaths(det)) : TRUE]

\* The activations of recurse with the listing each one received.
Activations ==
    {<<i, e>> \in (1..Len(stack)) \X providerLog : e.op = "ListDir" /\ e.path = stack[i].path}

MultiPrimary(parent, det) ==
    Len(NamedOf(det)) >= 2 =>
        /\ AttachedOnce(parent, det)
        /\ Len(heap[AttachedChild(parent, det)].tech) >= 2

UnionPrimary(parent, det) ==
    Len(NamedOf(det)) >= 2 =>
        /\ AttachedOnce(parent, det)
        /\ NamedTechs(det) \subseteq Range(heap[AttachedChild(parent, det)].tech)

HybridAttached(parent, det) ==
    /\ Len(NamedOf(det)) >= 2
    /\ Cardinality(NamedTechs(det)) >= 2
    /\ AttachedOnce(parent, det)
    /\ Len(heap[AttachedChild(parent, det)].tech) >= 2

ScanOf(files, fileOrder, extOrder) ==
    applyRules(NewPayloadWithPath(<<>>, "main", <<>>), Root, files, <<>>, fileOrder, extOrder)

\* Every run of applyRules over the listing leaves the same payloads.
SameResult(files) ==
    \A fileOrder1, fileOrder2 \in Perms(DOMAIN MatchFiles(files)) :
        \A extOrder1, extOrder2 \in Perms(DOMAIN MatchExtensions(files)) :
            ScanOf(files, fileOrder1, extOrder1) = ScanOf(files, fileOrder2, extOrder2)

\* C14: for every listing a scan has received, two runs of the rules over
\* it produce identical payloads: the same techs, reasons and children in
\* the same order.
C14_ScanDeterministic ==
    \A e \in providerLog : e.op = "ListDir" => SameResult(e.files)

\* The fields Combine merges.
Merged(h, p) ==
    <<h[p].path, h[p].languages, h[p].techs, h[p].tech, h[p].dependencies, h[p].licenses>>

CombineTwice(h, C, P) == Combine(Combine(h, C, P), C, P)

\* C15: for every context payload C and virtual payload P, path,
\* languages, techs, tech, dependencies and licenses of C are the same
\* after C.Combine(P) twice as after C.Combine(P) once.
C15_CombineIdempotent ==
    \A C, P \in Payloads :
        (heap[C].name # "virtual" /\ heap[P].name = "virtual")
        => Merged(CombineTwice(heap, C, P), C) = Merged(Combine(heap, C, P), C)

\* The children of the parent with the name.
ChildrenNamed(h, parent, name) ==
    {k \in 1..Len(h[parent].childs) : h[h[parent].childs[k]].name = name}

\* parent.AddChild of a new payload with the name and the primary techs.
AddNewChild(h, parent, name, tech) ==
    AddChild(Append(h, ChildPayload(name, tech)), parent, Len(h) + 1)

AddChildTwice(h, parent, name, tech1, tech2) ==
    AddNewChild(AddNewChild(h, parent, name, tech1), parent, name, tech2)

NonEmptyTechs == ChildTechs \ {<<>>}

\* C16 as stated: for any parent, after two AddChild calls with children
\* of one name and non-empty tech the parent has exactly one child of that
\* name.
C16_AddChildTwiceOneChild ==
    \A parent \in Payloads, name \in ChildNames, tech1, tech2 \in NonEmptyTechs :
        Cardinality(ChildrenNamed(AddChildTwice(heap, parent, name, tech1, tech2), parent, name)) = 1

\* C16 amended: after two AddChild calls with children of one name and
\* non-empty tech, a parent that had no child of that name has exactly one,
\* and a parent that had children of that name has as many as before.
C16_AddChildTwiceAddsAtMostOne ==
    \A parent \in Payloads, name \in ChildNames, tech1, tech2 \in NonEmptyTechs :
        Cardinality(ChildrenNamed(AddChildTwice(heap, parent, name, tech1, tech2), parent, name))
            = IF ChildrenNamed(heap, parent, name) = {} THEN 1
              ELSE Cardinality(ChildrenNamed(heap, parent, name))

\* AddChild has been called twice with payloads of one name and non-empty
\* tech, and the parent has one child of that name, holding both techs.
C16_Witness ==
    /\ status = "payload"
    /\ \E name \in ChildNames :
          /\ Cardinality({p \in Payloads : heap[p].name = name /\ heap[p].tech # <<>>}) >= 2
          /\ Cardinality(ChildrenNamed(heap, Root, name)) = 1
          /\ \E k \in ChildrenNamed(heap, Root, name) :
                Len(heap[heap[Root].childs[k]].tech) = 2

\* The path has an element named __tests__.
UnderTests(path) == "__tests__" \in Range(path)

\* C17: with the exclusion pattern **/__tests__/** configured, no
\* directory under a directory named __tests__ is listed, no file under it
\* is read or counted, and no payload carries a path under it.
C17_TestsSubtreeExcluded ==
    TestsPattern \in Range(excludeDirs) =>
        /\ \A e \in providerLog : e.op \in {"ListDir", "ReadFile"} => ~UnderTests(e.path)
        /\ \A i \in 1..Len(stack) : ~UnderTests(stack[i].path)
        /\ \A p \in Payloads : \A path \in Range(heap[p].path) : ~UnderTests(path)

\* A scan with the pattern configured has met a directory named __tests__,
\* has skipped it and has completed.
C17_Witness ==
    /\ Done
    /\ TestsPattern \in Range(excludeDirs)
    /\ \E e \in providerLog : e.op = "Skipped" /\ e.name = "__tests__"

\* A user exclusion pattern matches the directory name.
UserPatternMatches(name) ==
    \E i \in 1..Len(excludeDirs) :
        doublestarMatch(excludeDirs[i], <<name>>) \/ EqualFold(name, excludeDirs[i])

\* C18 as stated: under every configuration a directory named .github is
\* never skipped.
C18_GithubNeverSkipped ==
    \A e \in providerLog : ~(e.op = "Skipped" /\ e.name = ".github")

\* C18 amended: a directory named .github is skipped only when a user
\* exclusion pattern matches its name; the built-in list never makes the
\* ignore check skip it.
C18_GithubSkippedOnlyByUserPattern ==
    /\ \A e \in providerLog :
          (e.op = "Skipped" /\ e.name = ".github") => UserPatternMatches(".github")
    /\ ~UserPatternMatches(".github") => ~shouldIgnoreDirectory(".github")

\* A scan with exclusion patterns, none of which matches .github, has
\* listed a directory named .github.
C18_Witness ==
    /\ excludeDirs # <<>>
    /\ ~UserPatternMatches(".github")
    /\ \E e \in providerLog :
          e.op = "ListDir" /\ e.path # <<>> /\ e.path[Len(e.path)] = ".github"

\* C19: no file that shouldExcludeFile excludes is read through the
\* provider for content matching.
C19_ExcludedFileNotRead ==
    \A e \in providerLog : e.op = "ReadFile" => ~shouldExcludeFile(e.name, e.path)

\* C20: after a completed scan every tech of the project configuration
\* is in techs[] of the root payload.
C20_ConfiguredTechsInRoot ==
    Done => \A i \in 1..Len(cfgTechs) : Contains(heap[Root].techs, cfgTechs[i].tech)

Returned(kind) == status = "returned" /\ document.kind = kind

\* The lines of a mapping that starts at line i: those indented as the
\* first line under it, up to the line that closes the mapping.
KeysUnder(doc, i) ==
    SelectSeq([j \in 1..Len(doc) |-> j],
              LAMBDA j : /\ j > i
                         /\ \A k \in (i + 1)..j : doc[k].indent > doc[i].indent
                         /\ doc[j].indent = doc[i + 1].indent)

\* The top-level services: line, 0 without one.
TopLevelServices(doc) ==
    IF \E i \in 1..Len(doc) : doc[i].indent = 0 /\ isServicesLine(doc[i])
    THEN CHOOSE i \in 1..Len(doc) : doc[i].indent = 0 /\ isServicesLine(doc[i])
    ELSE 0

\* The keys directly under the top-level services: mapping, in document
\* order.
ServiceKeys(doc) ==
    IF TopLevelServices(doc) = 0 THEN <<>>
    ELSE [n \in 1..Len(KeysUnder(doc, TopLevelServices(doc))) |->
              doc[KeysUnder(doc, TopLevelServices(doc))[n]].key]

ServiceNames(services) == [n \in 1..Len(services) |-> services[n].name]

\* C22: the names of the services ParseDockerCompose returns are the keys
\* directly under the top-level services: mapping, each once and in
\* document order, and no other key.
C22_ServicesAreTopLevelKeys ==
    Returned("compose") => ServiceNames(result) = ServiceKeys(document.body)

\* The declarations of a Gradle file whose configuration name is one of
\* the eight supported names.
SupportedDeclarations(content) ==
    SelectSeq(content, LAMBDA line : \E i \in 1..Len(depTypes) : depTypes[i] = line.config)

\* C24: ParseGradle returns the dependencies of the declarations whose
\* configuration name is exactly one of the eight supported names, and
\* none for a declaration with another configuration name.
C24_OnlySupportedConfigurations ==
    Returned("gradle") => Len(result) <= Len(SupportedDeclarations(document.body))

\* The values the <properties> elements of the pom declare for the name.
DeclaredValues(content, name) ==
    {content.properties[b][i].value :
        <<b, i>> \in {<<c, k>> \in (1..Len(content.properties)) \X (1..1) :
                         /\ k <= Len(content.properties[c])
                         /\ content.properties[c][k].name = name}}

\* The version the claim expects for a dependency.
ResolvedAsDeclared(content, version, example) ==
    version.kind = "reference" =>
        IF DeclaredValues(content, version.text) # {}
        THEN \E value \in DeclaredValues(content, version.text) : example = <<value>>
        ELSE example = VersionText(version)

\* C23: ParsePomXML gives a dependency whose version is ${name} the value
\* the pom's <properties> declare for name, and the version string itself
\* when they declare none.
C23_VersionResolvedFromProperties ==
    Returned("pom") =>
        \A i \in 1..Len(result) :
            ResolvedAsDeclared(document.body, document.body.dependencies[i].version, result[i].example)

\* The dependencies that occur in a payload tree.
RECURSIVE TriplesOf(_)
TriplesOf(payload) ==
    Range(payload.dependencies) \cup UNION {TriplesOf(payload.childs[i]) : i \in 1..Len(payload.childs)}

\* C21: the aggregated dependencies hold every (dep_type, name, version)
\* triple that occurs in the payload tree, each exactly once, and nothing
\* else.
C21_AggregatedDependenciesExactlyOnce ==
    Returned("tree") =>
        /\ Range(result) = TriplesOf(document.body)
        /\ NoDup(result)

\* A component as a detector hands it to AddChild: primary tech, techs,
\* one counted file, a dependency, a licence and a reason.
ComponentPayload(name) ==
    [NewPayloadRec(name, <<<<name, "pom.xml">>>>) EXCEPT
        !.tech = <<"java">>,
        !.techs = <<"java", "spring">>,
        !.languages = [l \in Languages |-> IF l = "XML" THEN 1 ELSE 0],
        !.dependencies = <<Dependency("maven", "spring-boot", "3.2")>>,
        !.licenses = <<"MIT">>,
        !.reason = <<Reason("matched file", <<"pom.xml">>)>>]

\* parent.AddChild of a new component with the name.
AddComponent(h, parent, name) ==
    AddChild(Append(h, ComponentPayload(name)), parent, Len(h) + 1)

\* after[exist] holds the lists of before[exist] and of the service, and
\* the sums of their language counts.
MergedInto(before, after, exist, service) ==
    /\ Range(after[exist].path) = Range(before[exist].path) \cup Range(service.path)
    /\ Range(after[exist].tech) = Range(before[exist].tech) \cup Range(service.tech)
    /\ Range(after[exist].techs) = Range(before[exist].techs) \cup Range(service.techs)
    /\ Range(after[exist].dependencies)
          = Range(before[exist].dependencies) \cup Range(service.dependencies)
    /\ Range(after[exist].reason) = Range(before[exist].reason) \cup Range(service.reason)
    /\ Range(after[exist].licenses) = Range(before[exist].licenses) \cup Range(service.licenses)
    /\ \A l \in Languages :
          after[exist].languages[l] = before[exist].languages[l] + service.languages[l]

\* C27: when AddChild merges a new child into an existing child of the
\* same name, both with a primary tech, the existing child afterwards holds
\* the union of both children's path, tech, techs, dependencies, reason and
\* licenses, and the sums of their language counts.
C27_AddChildMergeUnions ==
    \A name \in ChildNames, exist \in Payloads :
        (/\ exist \in Range(heap[Root].childs)
         /\ heap[exist].name = name
         /\ heap[exist].tech # <<>>
         /\ ExistingChild(Append(heap, ComponentPayload(name)), Root, Len(heap) + 1) = exist)
        => MergedInto(heap, AddComponent(heap, Root, name), exist, ComponentPayload(name))

\* The names of the children and of the edge targets of a payload.
ChildNamesOf(h, p) == {h[h[p].childs[k]].name : k \in 1..Len(h[p].childs)}

EdgeNamesOf(h, p) == {h[h[p].edges[k].target].name : k \in 1..Len(h[p].edges)}

RECURSIVE LanguageSum(_, _, _)
LanguageSum(h, components, l) ==
    IF components = <<>> THEN 0
    ELSE h[Head(components)].languages[l] + LanguageSum(h, Tail(components), l)

\* The base of the merge holds afterwards what the named components held
\* before it.
MergeKeeps(before, after, named) ==
    /\ \A c \in Range(named) :
          /\ ChildNamesOf(before, c) \subseteq ChildNamesOf(after, named[1])
          /\ EdgeNamesOf(before, c) \subseteq EdgeNamesOf(after, named[1])
    /\ \A l \in Languages : after[named[1]].languages[l] = LanguageSum(before, named, l)

MergeKeepsAll(det) ==
    Len(NamedOf(det)) >= 2 => MergeKeeps(det.h, mergeComponents(det.h, NamedOf(det)), NamedOf(det))

\* C30: when the detectors return two or more named components for a
\* directory, the component they are merged into holds every child, every
\* edge and every language count any of them held before the merge.
C30_MergeKeepsChildrenEdgesLanguages ==
    \A e \in providerLog : e.op = "ListDir" => MergeKeepsAll(DetectedIn(e.files, e.path))

\* A step of the loop of recurse that handles a regular file.
CountsFile ==
    /\ stack # <<>>
    /\ Len(stack') = Len(stack)
    /\ Top.files # <<>>
    /\ stack'[Len(stack)].files = Tail(Top.files)

\* A step that calls recurse on a subdirectory of the current directory.
EntersSubdirectory == stack # <<>> /\ Len(stack') = Len(stack) + 1

\* Counting a file touches language counts only: the detectors, the merges
\* and the matchers of the directory have run before.
RulesBeforeCounting ==
    CountsFile =>
        /\ Len(heap') = Len(heap)
        /\ \A p \in Payloads :
              [heap'[p] EXCEPT !.languages = heap[p].languages] = heap[p]

\* Recursion starts when every file of the directory has been handled.
CountingBeforeRecursion == EntersSubdirectory => Top.files = <<>>

\* C26: within one directory the side effects on the payload tree occur in
\* the order component detectors, virtual merges, auxiliary detectors,
\* licenses, file and extension matchers, content matchers with the gate,
\* language counting, recursion into subdirectories: on the steps of the
\* scanner, a directory's rules are applied before its files are counted,
\* and all its files are counted before any of its subdirectories is
\* entered.
C26_SideEffectOrder == [][RulesBeforeCounting /\ CountingBeforeRecursion]_vars

\* The payloads whose slice header the step leaves as it is keep the
\* elements of their Path.
OthersKeepPath ==
    \A q \in 1..Len(pathOf) :
        pathOf'[q] = pathOf[q] => Elements(arrays', pathOf'[q]) = Elements(arrays, pathOf[q])

\* C29: adding a path to one payload never changes the path[] of any other
\* payload, also after an implicit component was created with its parent's
\* path list and whatever the order in which the two gain paths.
C29_AddPathLeavesOtherPaths == [][OthersKeepPath]_vars

\* The activations of recurse in whose directory the detectors found a
\* named component.
ComponentDirs ==
    {i \in 1..Len(stack) :
        \E e \in providerLog :
            /\ e.op = "ListDir"
            /\ e.path = stack[i].path
            /\ Len(NamedOf(DetectedIn(e.files, e.path))) >= 1}

\* The step changes a language count of the payload.
Counted(p) == heap'[p].languages # heap[p].languages

\* Below a directory with a named component a count goes to that component
\* or to one created deeper, never to the payload the directory was
\* entered with.
CountsOnComponent ==
    /\ \A i \in ComponentDirs : ~Counted(stack[i].payload)
    /\ \A p \in Payloads :
          (Counted(p) /\ ComponentDirs # {})
          => \E j \in ComponentDirs : p = stack[j].ctx /\ p # stack[j].payload

\* C25: when a named component is created in a directory, the language
\* counts of the files of that directory and of the directories below it
\* accumulate on that component, or on a named component created deeper,
\* and none of them on the outer parent payload.
C25_CountsFollowComponent == [][CountsFile => CountsOnComponent]_vars

\* A file of a directory below a named component's directory has been
\* counted: the count is on the component and the outer parent has none.
C25_Witness ==
    /\ Len(stack) >= 2
    /\ Top.files = <<>>
    /\ \E i \in ComponentDirs :
          /\ i < Len(stack)
          /\ Top.ctx = stack[i].ctx
          /\ \E e \in providerLog :
                /\ e.op = "ListDir"
                /\ e.path = Top.path
                /\ \E k \in 1..Len(e.files) :
                      /\ e.files[k].lang # ""
                      /\ heap[Top.ctx].languages[e.files[k].lang] >= 1
          /\ \A l \in Languages : heap[stack[i].payload].languages[l] = 0

\* The components of a listing on a fresh root payload, and the matches of
\* the file and extension matchers on the context they return: the payloads
\* and the matchedTechs map detectByContent is called with.
ComponentsOf(files, path) ==
    detectComponents(NewPayloadWithPath(<<>>, "main", <<>>), Root, Root, files, path)

MatchedBefore(c, files, path, fileOrder, extOrder) ==
    processTechMatches(
        processTechMatches(Matched(c.h, {}), c.ctx, MatchFiles(files), fileOrder, path, TRUE),
        c.ctx, MatchExtensions(files), extOrder, path, FALSE)

\* The techs the gate took from matchedTechs are in neither list of the
\* context.
GateRemoves(before, after, ctx) ==
    \A tech \in before.matchedTechs \ after.matchedTechs :
        /\ tech \notin Range(after.h[ctx].techs)
        /\ tech \notin Range(after.h[ctx].tech)

GateAfter(before, ctx, files, path) ==
    GateRemoves(before, detectByContent(before, ctx, files, path), ctx)

GateOn(c, files, path) ==
    \A fileOrder \in Perms(DOMAIN MatchFiles(files)) :
        \A extOrder \in Perms(DOMAIN MatchExtensions(files)) :
            GateAfter(MatchedBefore(c, files, path, fileOrder, extOrder), c.ctx, files, path)

====
